---- MODULE Spec2Model ----
(***************************************************************************)
(* Model of the signature layer of vc-go:                                  *)
(*   - the multi-curve ECDSA signer (internal/testutil/.../signer/ecdsa.go)*)
(*   - the crypto-backend signer/verifier adapter (signature/suite)        *)
(*   - linked-data-proof attachment and per-proof verification             *)
(*     (verifiable), with the public key fetchers of the test fixtures     *)
(* Big integers are kept as big.Int keeps them: a big-endian byte string   *)
(* without leading zero bytes (the value of r.Bytes()).                    *)
(***************************************************************************)
EXTENDS Integers, Sequences, FiniteSets, TLC

VARIABLES
    es,        \* the *ECDSASigner returned by the last constructor call (NilSigner when nil)
    esErr,     \* the error returned by the last constructor call
    esCall,    \* which constructor was called last, and with which curve / key
    sigOut,    \* result of the last ECDSASigner.Sign: signature bytes, error, panic flag
    rsOut,     \* what ecdsa.Sign produced inside the last Sign call (r, s, digest)
    backend,   \* the wrapped crypto backend: configured values and number of calls received
    adOut,     \* result of the last adapter call: operation, message, bytes, error
    proofs,    \* the document's proof sequence
    attached,  \* history: the proofs in the order AddLinkedDataProof attached them
    fetcher,   \* the public key fetcher handed to the verification
    results,   \* per-proof verification results of the last check
    vstate,    \* "idle", "done", "tampered", "rechecked" or "panicked"
    before,    \* the results of the check made before a proof was tampered with
    tampered   \* index of the proof tampered with since that check (0: none)

vars == <<es, esErr, esCall, sigOut, rsOut, backend, adOut,
          proofs, attached, fetcher, results, vstate, before, tampered>>

signerVars == <<es, esErr, esCall, sigOut, rsOut>>
adapterVars == <<backend, adOut>>
proofVars == <<proofs, attached, fetcher, results, vstate, before, tampered>>

----------------------------------------------------------------------------
(* Bounds *)

\* r and s are drawn with a byte length within MaxShort of either end of 1..keyBytes
MaxShort == 1
\* number of backend calls followed per run
MaxCalls == 2
\* longest proof sequence followed
MaxProofs == 2

----------------------------------------------------------------------------
(* Multi-curve ECDSA signer: ecdsa.go *)

P256Alg == "ES256"
P384Alg == "ES384"
P521Alg == "ES521"
Secp256Alg == "ES256K"

NoErr == "nil"
ErrUnsupportedCurve == "unsupported curve"
ErrKeyGen == "key generation: entropy failure"
ErrJWK == "create JWK: unsupported key"
ErrSignRand == "ecdsa sign: entropy failure"

SupportedCurves == {"P256", "P384", "P521", "S256"}
\* P-224 of crypto/elliptic, and a caller's own implementation of elliptic.Curve
UnsupportedCurves == {"P224", "Custom"}
Curves == SupportedCurves \cup UnsupportedCurves

\* Curve.Params().BitSize
BitSize(curve) ==
    CASE curve = "P256" -> 256
      [] curve = "P384" -> 384
      [] curve = "P521" -> 521
      [] curve = "S256" -> 256
      [] curve = "P224" -> 224
      [] curve = "Custom" -> 17

\* The binding the constructors are meant to give each curve
TableAlg(curve) ==
    CASE curve = "P256" -> P256Alg
      [] curve = "P384" -> P384Alg
      [] curve = "P521" -> P521Alg
      [] curve = "S256" -> Secp256Alg

TableHash(curve) ==
    CASE curve = "P256" -> "SHA256"
      [] curve = "P384" -> "SHA384"
      [] curve = "P521" -> "SHA512"
      [] curve = "S256" -> "SHA256"

TableSigLen(curve) ==
    CASE curve = "P256" -> 64
      [] curve = "P384" -> 96
      [] curve = "P521" -> 132
      [] curve = "S256" -> 64

\* private keys a caller may hold
KeyIds == {1}
Keys == [curve : Curves, id : KeyIds]

NilSigner == [nil |-> TRUE]

\* newECDSASigner: jwkOk is whether jwksupport.JWKFromKey accepts the key
newECDSASigner(privKey, pubKey, hash, alg, jwkOk) ==
    IF ~jwkOk
    THEN [signer |-> NilSigner, err |-> ErrJWK]
    ELSE [signer |-> [nil |-> FALSE,
                      privateKey |-> privKey,
                      PubKey |-> pubKey,
                      PubKeyJWK |-> <<"jwk", pubKey>>,
                      pubKeyBytes |-> <<"point", pubKey>>,
                      hash |-> hash,
                      alg |-> alg],
          err |-> NoErr]

GetECDSAP256Signer(privKey, jwkOk) ==
    newECDSASigner(privKey, privKey, "SHA256", P256Alg, jwkOk)

GetECDSAP384Signer(privKey, jwkOk) ==
    newECDSASigner(privKey, privKey, "SHA384", P384Alg, jwkOk)

GetECDSAP521Signer(privKey, jwkOk) ==
    newECDSASigner(privKey, privKey, "SHA512", P521Alg, jwkOk)

GetECDSASecp256k1Signer(privKey, jwkOk) ==
    newECDSASigner(privKey, privKey, "SHA256", Secp256Alg, jwkOk)

\* ecdsa.GenerateKey(curve, rand.Reader): gen.ok is whether the random source delivered
NewECDSAP256Signer(gen, jwkOk) ==
    IF ~gen.ok THEN [signer |-> NilSigner, err |-> ErrKeyGen]
    ELSE newECDSASigner([curve |-> "P256", id |-> gen.id],
                        [curve |-> "P256", id |-> gen.id], "SHA256", P256Alg, jwkOk)

NewECDSAP384Signer(gen, jwkOk) ==
    IF ~gen.ok THEN [signer |-> NilSigner, err |-> ErrKeyGen]
    ELSE newECDSASigner([curve |-> "P384", id |-> gen.id],
                        [curve |-> "P384", id |-> gen.id], "SHA384", P384Alg, jwkOk)

NewECDSAP521Signer(gen, jwkOk) ==
    IF ~gen.ok THEN [signer |-> NilSigner, err |-> ErrKeyGen]
    ELSE newECDSASigner([curve |-> "P521", id |-> gen.id],
                        [curve |-> "P521", id |-> gen.id], "SHA512", P521Alg, jwkOk)

NewECDSASecp256k1Signer(gen, jwkOk) ==
    IF ~gen.ok THEN [signer |-> NilSigner, err |-> ErrKeyGen]
    ELSE newECDSASigner([curve |-> "S256", id |-> gen.id],
                        [curve |-> "S256", id |-> gen.id], "SHA256", Secp256Alg, jwkOk)

NewECDSASigner(curve, gen, jwkOk) ==
    CASE curve = "P256" -> NewECDSAP256Signer(gen, jwkOk)
      [] curve = "P384" -> NewECDSAP384Signer(gen, jwkOk)
      [] curve = "P521" -> NewECDSAP521Signer(gen, jwkOk)
      [] curve = "S256" -> NewECDSASecp256k1Signer(gen, jwkOk)
      [] OTHER -> [signer |-> NilSigner, err |-> ErrUnsupportedCurve]

\* GetECDSASigner with the default branch handing the key to the P-256 constructor
GetECDSASignerNoDefault(privKey, jwkOk) ==
    CASE privKey.curve = "P384" -> GetECDSAP384Signer(privKey, jwkOk)
      [] privKey.curve = "P521" -> GetECDSAP521Signer(privKey, jwkOk)
      [] privKey.curve = "S256" -> GetECDSASecp256k1Signer(privKey, jwkOk)
      [] OTHER -> GetECDSAP256Signer(privKey, jwkOk)

GetECDSASigner(privKey, jwkOk) ==
    CASE privKey.curve = "P256" -> GetECDSAP256Signer(privKey, jwkOk)
      [] privKey.curve = "P384" -> GetECDSAP384Signer(privKey, jwkOk)
      [] privKey.curve = "P521" -> GetECDSAP521Signer(privKey, jwkOk)
      [] privKey.curve = "S256" -> GetECDSASecp256k1Signer(privKey, jwkOk)
      [] OTHER -> [signer |-> NilSigner, err |-> ErrUnsupportedCurve]

\* keyBytes without the extra byte for a partial top byte
keyBytesTruncating(curveBits) == curveBits \div 8

\* keyBytes of signEcdsa: curveBits / 8, one more when curveBits % 8 > 0
keyBytes(curveBits) ==
    IF curveBits % 8 > 0 THEN (curveBits \div 8) + 1 ELSE curveBits \div 8

\* make([]byte, size)
ZeroBytes(size) == [i \in 1..size |-> 0]

\* copyPadded copying to the front of dest: copy(dest, source)
copyPaddedRight(source, size) ==
    IF Len(source) > size
    THEN [panic |-> TRUE, bytes |-> <<>>]
    ELSE [panic |-> FALSE, bytes |-> source \o ZeroBytes(size - Len(source))]

\* copyPadded of signEcdsa: dest[size-len(source):] panics when source is longer than size
copyPadded(source, size) ==
    IF Len(source) > size
    THEN [panic |-> TRUE, bytes |-> <<>>]
    ELSE [panic |-> FALSE, bytes |-> ZeroBytes(size - Len(source)) \o source]

\* hash.New(); hasher.Write(msg); hasher.Sum(nil)
Hashed(hash, msg) == <<hash, msg>>

\* signEcdsa handing back the zeroed buffer next to the error of ecdsa.Sign
signEcdsaKeepsBuffer(msg, privateKey, hash, rnd) ==
    LET size == keyBytes(BitSize(privateKey.curve))
    IN  IF ~rnd.ok
        THEN [sig |-> ZeroBytes(size) \o ZeroBytes(size), err |-> ErrSignRand,
              panic |-> FALSE]
        ELSE [sig |-> copyPadded(rnd.r, size).bytes \o copyPadded(rnd.s, size).bytes,
              err |-> NoErr, panic |-> FALSE]

\* signEcdsa. rnd is the outcome of ecdsa.Sign(rand.Reader, privateKey, hashed):
\* an error, or r and s as r.Bytes() and s.Bytes() give them.
signEcdsa(msg, privateKey, hash, rnd) ==
    IF ~rnd.ok
    THEN [sig |-> <<>>, err |-> ErrSignRand, panic |-> FALSE]
    ELSE LET size == keyBytes(BitSize(privateKey.curve))
             rp == copyPadded(rnd.r, size)
             sp == copyPadded(rnd.s, size)
         IN  IF rp.panic \/ sp.panic
             THEN [sig |-> <<>>, err |-> NoErr, panic |-> TRUE]
             ELSE [sig |-> rp.bytes \o sp.bytes, err |-> NoErr, panic |-> FALSE]

\* ECDSASigner.Sign
Sign(signer, msg, rnd) == signEcdsa(msg, signer.privateKey, signer.hash, rnd)

\* ECDSASigner.Alg
Alg(signer) == signer.alg

\* ECDSASigner.PublicKey
PublicKey(signer) == signer.PubKey

\* ECDSASigner.PublicJWK
PublicJWK(signer) == signer.PubKeyJWK

\* ECDSASigner.PublicKeyBytes
PublicKeyBytes(signer) == signer.pubKeyBytes

(* Inputs of the signer operations *)

Msgs == {<<>>, <<109, 115, 103>>}

\* outcomes of ecdsa.GenerateKey
Gens == {[ok |-> FALSE, id |-> 1]} \cup [ok : {TRUE}, id : KeyIds]

\* byte lengths of the scalars drawn for a curve: the shortest and the longest ones
ScalarLens(curve) ==
    LET n == keyBytes(BitSize(curve))
    IN  {len \in 1..n : len <= MaxShort \/ len >= n - MaxShort}

\* a scalar of the given byte length: low (leading byte 1, then zero bytes) and high
\* (leading byte 254 and 254 throughout, or 1 where the curve's top byte is partial);
\* both lie below the order of each curve
ScalarsOfLen(curve, len) ==
    {[i \in 1..len |-> IF i = 1 THEN 1 ELSE 0]}
      \cup (IF len = keyBytes(BitSize(curve)) /\ BitSize(curve) % 8 > 0
            THEN {[i \in 1..len |-> IF i = 1 THEN 1 ELSE 254]}
            ELSE {[i \in 1..len |-> 254]})

\* big.Int values in [1, N-1], as Bytes() returns them: big-endian, no leading zero byte
Scalars(curve) == UNION {ScalarsOfLen(curve, len) : len \in ScalarLens(curve)}

\* outcomes of ecdsa.Sign for a key on the curve
SignOutcomes(curve) ==
    {[ok |-> FALSE, r |-> <<>>, s |-> <<>>]}
      \cup [ok : {TRUE}, r : Scalars(curve), s : Scalars(curve)]

NoCall == [op |-> "none", curve |-> "none"]
NoSig == [called |-> FALSE, sig |-> <<>>, err |-> NoErr, panic |-> FALSE]
NoRS == [ok |-> FALSE, r |-> <<>>, s |-> <<>>, hashed |-> <<>>]

\* The constructors: the signer and the error returned are kept in es and esErr

CallNewECDSASigner ==
    /\ ~sigOut.called
    /\ \E curve \in Curves, gen \in Gens, jwkOk \in BOOLEAN :
         LET res == NewECDSASigner(curve, gen, jwkOk)
         IN  /\ es' = res.signer
             /\ esErr' = res.err
             /\ esCall' = [op |-> "NewECDSASigner", curve |-> curve]
    /\ UNCHANGED <<sigOut, rsOut, adapterVars, proofVars>>

CallGetECDSASigner ==
    /\ ~sigOut.called
    /\ \E privKey \in Keys, jwkOk \in BOOLEAN :
         LET res == GetECDSASigner(privKey, jwkOk)
         IN  /\ es' = res.signer
             /\ esErr' = res.err
             /\ esCall' = [op |-> "GetECDSASigner", curve |-> privKey.curve]
    /\ UNCHANGED <<sigOut, rsOut, adapterVars, proofVars>>

CallNewECDSAP256Signer ==
    /\ ~sigOut.called
    /\ \E gen \in Gens, jwkOk \in BOOLEAN :
         LET res == NewECDSAP256Signer(gen, jwkOk)
         IN  /\ es' = res.signer
             /\ esErr' = res.err
             /\ esCall' = [op |-> "NewECDSAP256Signer", curve |-> "P256"]
    /\ UNCHANGED <<sigOut, rsOut, adapterVars, proofVars>>

CallNewECDSAP384Signer ==
    /\ ~sigOut.called
    /\ \E gen \in Gens, jwkOk \in BOOLEAN :
         LET res == NewECDSAP384Signer(gen, jwkOk)
         IN  /\ es' = res.signer
             /\ esErr' = res.err
             /\ esCall' = [op |-> "NewECDSAP384Signer", curve |-> "P384"]
    /\ UNCHANGED <<sigOut, rsOut, adapterVars, proofVars>>

CallNewECDSAP521Signer ==
    /\ ~sigOut.called
    /\ \E gen \in Gens, jwkOk \in BOOLEAN :
         LET res == NewECDSAP521Signer(gen, jwkOk)
         IN  /\ es' = res.signer
             /\ esErr' = res.err
             /\ esCall' = [op |-> "NewECDSAP521Signer", curve |-> "P521"]
    /\ UNCHANGED <<sigOut, rsOut, adapterVars, proofVars>>

CallNewECDSASecp256k1Signer ==
    /\ ~sigOut.called
    /\ \E gen \in Gens, jwkOk \in BOOLEAN :
         LET res == NewECDSASecp256k1Signer(gen, jwkOk)
         IN  /\ es' = res.signer
             /\ esErr' = res.err
             /\ esCall' = [op |-> "NewECDSASecp256k1Signer", curve |-> "S256"]
    /\ UNCHANGED <<sigOut, rsOut, adapterVars, proofVars>>

CallGetECDSAP256Signer ==
    /\ ~sigOut.called
    /\ \E privKey \in Keys, jwkOk \in BOOLEAN :
         LET res == GetECDSAP256Signer(privKey, jwkOk)
         IN  /\ es' = res.signer
             /\ esErr' = res.err
             /\ esCall' = [op |-> "GetECDSAP256Signer", curve |-> privKey.curve]
    /\ UNCHANGED <<sigOut, rsOut, adapterVars, proofVars>>

CallGetECDSAP384Signer ==
    /\ ~sigOut.called
    /\ \E privKey \in Keys, jwkOk \in BOOLEAN :
         LET res == GetECDSAP384Signer(privKey, jwkOk)
         IN  /\ es' = res.signer
             /\ esErr' = res.err
             /\ esCall' = [op |-> "GetECDSAP384Signer", curve |-> privKey.curve]
    /\ UNCHANGED <<sigOut, rsOut, adapterVars, proofVars>>

CallGetECDSAP521Signer ==
    /\ ~sigOut.called
    /\ \E privKey \in Keys, jwkOk \in BOOLEAN :
         LET res == GetECDSAP521Signer(privKey, jwkOk)
         IN  /\ es' = res.signer
             /\ esErr' = res.err
             /\ esCall' = [op |-> "GetECDSAP521Signer", curve |-> privKey.curve]
    /\ UNCHANGED <<sigOut, rsOut, adapterVars, proofVars>>

CallGetECDSASecp256k1Signer ==
    /\ ~sigOut.called
    /\ \E privKey \in Keys, jwkOk \in BOOLEAN :
         LET res == GetECDSASecp256k1Signer(privKey, jwkOk)
         IN  /\ es' = res.signer
             /\ esErr' = res.err
             /\ esCall' = [op |-> "GetECDSASecp256k1Signer", curve |-> privKey.curve]
    /\ UNCHANGED <<sigOut, rsOut, adapterVars, proofVars>>

\* the owner of the signer releases it, and the results of its Sign calls with it
Release ==
    /\ sigOut.called
    /\ es' = NilSigner
    /\ esErr' = NoErr
    /\ esCall' = NoCall
    /\ sigOut' = NoSig
    /\ rsOut' = NoRS
    /\ UNCHANGED <<adapterVars, proofVars>>

\* es.Sign(msg) on the signer a constructor returned
CallSign ==
    /\ ~es.nil
    /\ \E msg \in Msgs, rnd \in SignOutcomes(es.privateKey.curve) :
         LET res == Sign(es, msg, rnd)
         IN  /\ sigOut' = [called |-> TRUE, sig |-> res.sig, err |-> res.err,
                           panic |-> res.panic]
             /\ rsOut' = [ok |-> rnd.ok, r |-> rnd.r, s |-> rnd.s,
                          hashed |-> Hashed(es.hash, msg)]
    /\ UNCHANGED <<es, esErr, esCall, adapterVars, proofVars>>

----------------------------------------------------------------------------
(* Crypto-backend adapter: NewCryptoWrapperSigner / NewCryptoVerifier *)

\* "signature", as the tests have it, an empty value and one with a zero byte
SigBytes == {<<>>, <<115, 105, 103, 110, 97, 116, 117, 114, 101>>, <<0, 1>>}
SignErrs == {NoErr, "sign error"}
VerifyErrs == {NoErr, "verify error"}
PubKeys == {"emptyKey", "jwkKey"}

\* kmscrypto.MockFixedKeyCrypto / MockKMSCrypto as the tests configure them
MockCrypto(signVal, signErr, verifyErr) ==
    [SignVal |-> signVal, SignErr |-> signErr, VerifyErr |-> verifyErr,
     signCalls |-> 0, verifyCalls |-> 0, ret |-> [val |-> <<>>, err |-> NoErr]]

\* the backend's Sign: returns the configured value and error
BackendSign(b, msg) == [val |-> b.SignVal, err |-> b.SignErr]

\* the backend's Verify: returns the configured error
BackendVerify(b, pubKey, msg, sig) == [val |-> <<>>, err |-> b.VerifyErr]

\* CryptoSigner.Sign calling the backend again after an error and wrapping the error
AdapterSignRetrying(b, msg) ==
    LET ret == BackendSign(b, msg)
    IN  IF ret.err = NoErr
        THEN [val |-> ret.val, err |-> NoErr, calls |-> 1, ret |-> ret]
        ELSE [val |-> <<>>, err |-> "sign: " \o ret.err, calls |-> 2, ret |-> ret]

\* CryptoSigner.Sign: one backend call, its bytes and error handed back as they are
AdapterSign(b, msg) ==
    LET ret == BackendSign(b, msg)
    IN  [val |-> ret.val, err |-> ret.err, calls |-> 1, ret |-> ret]

\* CryptoVerifier.Verify: one backend call, its error handed back as it is
AdapterVerify(b, pubKey, msg, sig) ==
    LET ret == BackendVerify(b, pubKey, msg, sig)
    IN  [val |-> <<>>, err |-> ret.err, calls |-> 1, ret |-> ret]

NoAdapterCall == [op |-> "none", msg |-> <<>>, val |-> <<>>, err |-> NoErr, n |-> 0]

\* a test builds a mock backend and wraps it
NewMockCrypto ==
    /\ \E signVal \in SigBytes, signErr \in SignErrs, verifyErr \in VerifyErrs :
         backend' = MockCrypto(signVal, signErr, verifyErr)
    /\ adOut' = NoAdapterCall
    /\ UNCHANGED <<signerVars, proofVars>>

CallAdapterSign ==
    /\ adOut.n < MaxCalls
    /\ \E msg \in Msgs :
         LET res == AdapterSign(backend, msg)
         IN  /\ backend' = [backend EXCEPT !.signCalls = @ + res.calls, !.ret = res.ret]
             /\ adOut' = [op |-> "Sign", msg |-> msg, val |-> res.val, err |-> res.err,
                          n |-> adOut.n + 1]
    /\ UNCHANGED <<signerVars, proofVars>>

CallAdapterVerify ==
    /\ adOut.n < MaxCalls
    /\ \E pubKey \in PubKeys, msg \in Msgs, sig \in SigBytes :
         LET res == AdapterVerify(backend, pubKey, msg, sig)
         IN  /\ backend' = [backend EXCEPT !.verifyCalls = @ + res.calls, !.ret = res.ret]
             /\ adOut' = [op |-> "Verify", msg |-> msg, val |-> res.val, err |-> res.err,
                          n |-> adOut.n + 1]
    /\ UNCHANGED <<signerVars, proofVars>>

----------------------------------------------------------------------------
(* Linked data proofs: AddLinkedDataProof, proof check, public key fetchers *)

\* the two signers the fixtures create (signer1, signer2)
SignerIds == {1, 2}
Issuer == "did:123"
Fragments == {"key1", "key2", "any"}
Document == "validCredential"

\* signer.PublicJWK() of a fixture signer
SignerJWK(id) == <<"jwk", id>>

\* the suite's signature over bytes; empty and damaged values are signatures of nobody
SuiteSign(id, bytes) == [by |-> id, over |-> bytes, state |-> "intact"]

\* the suite's verification of a signature value against a public key and bytes
SuiteVerify(jwk, bytes, sigValue) ==
    /\ sigValue.state = "intact"
    /\ jwk = SignerJWK(sigValue.by)
    /\ sigValue.over = bytes

\* canonical bytes signed and verified for a proof: the document without its proofs,
\* and the proof's own fields without its signature value
Canonicalize(document, proof) ==
    <<document, proof.type, proof.created, proof.verificationMethod, proof.proofPurpose>>

\* AddLinkedDataProof setting the proof field to the new proof alone
AddLinkedDataProofReplacing(document, proofSeq, ctx) ==
    LET unsigned == [type |-> ctx.SignatureType,
                     created |-> ctx.Created,
                     verificationMethod |-> ctx.VerificationMethod,
                     proofPurpose |-> "assertionMethod",
                     signatureValue |-> [by |-> 0, over |-> <<>>, state |-> "absent"]]
        value == SuiteSign(ctx.Signer, Canonicalize(document, unsigned))
    IN  <<[unsigned EXCEPT !.signatureValue = value]>>

\* AddLinkedDataProof: builds the proof from the context and appends it
AddLinkedDataProof(document, proofSeq, ctx) ==
    LET unsigned == [type |-> ctx.SignatureType,
                     created |-> ctx.Created,
                     verificationMethod |-> ctx.VerificationMethod,
                     proofPurpose |-> "assertionMethod",
                     signatureValue |-> [by |-> 0, over |-> <<>>, state |-> "absent"]]
        value == SuiteSign(ctx.Signer, Canonicalize(document, unsigned))
    IN  Append(proofSeq, [unsigned EXCEPT !.signatureValue = value])

\* keyID handed to the fetcher: "#" and the fragment of the verification method
KeyID(verificationMethod) == "#" \o verificationMethod[2]

\* the fetcher with the two keys exchanged
TwoProofsFetcherSwapped(issuerID, keyID) ==
    CASE keyID = "#key1" -> [status |-> "ok", jwk |-> SignerJWK(2)]
      [] keyID = "#key2" -> [status |-> "ok", jwk |-> SignerJWK(1)]
      [] OTHER -> [status |-> "panic", jwk |-> <<>>]

\* the fetcher createVCWithTwoLinkedDataProofs returns
TwoProofsFetcher(issuerID, keyID) ==
    CASE keyID = "#key1" -> [status |-> "ok", jwk |-> SignerJWK(1)]
      [] keyID = "#key2" -> [status |-> "ok", jwk |-> SignerJWK(2)]
      [] OTHER -> [status |-> "panic", jwk |-> <<>>]

\* the fetcher createVCWithLinkedDataProof returns: SingleJWK(signer.PublicJWK(), ...)
SingleJWK(jwk, issuerID, keyID) == [status |-> "ok", jwk |-> jwk]

\* a public key resolver holding a table from key fragment to key, an error for the rest
TableResolver(table, issuerID, keyID) ==
    IF \E frag \in Fragments : keyID = "#" \o frag /\ table[frag] # 0
    THEN LET frag == CHOOSE f \in Fragments : keyID = "#" \o f
         IN  [status |-> "ok", jwk |-> SignerJWK(table[frag])]
    ELSE [status |-> "err", jwk |-> <<>>]

Fetch(f, issuerID, keyID) ==
    CASE f.kind = "twoProofs" -> TwoProofsFetcher(issuerID, keyID)
      [] f.kind = "singleJWK" -> SingleJWK(f.jwk, issuerID, keyID)
      [] f.kind = "resolver" -> TableResolver(f.table, issuerID, keyID)

Fetchers ==
    {[kind |-> "twoProofs"]}
      \cup {[kind |-> "singleJWK", jwk |-> SignerJWK(id)] : id \in SignerIds}
      \cup {[kind |-> "resolver", table |-> tb] :
              tb \in {x \in [Fragments -> SignerIds \cup {0}] : x["any"] = 0}}

\* verification of one proof: resolve the key of its verification method, then verify
VerifyProof(document, proof, f) ==
    LET got == Fetch(f, proof.verificationMethod[1], KeyID(proof.verificationMethod))
    IN  CASE got.status = "panic" -> "panic"
          [] got.status = "err" -> "KeyResolutionFailure"
          [] OTHER -> IF SuiteVerify(got.jwk, Canonicalize(document, proof),
                                     proof.signatureValue)
                      THEN "ok" ELSE "VerificationFailure"

\* the check ending at the first proof that does not verify
RECURSIVE VerifyProofsFailFast(_, _, _, _)
VerifyProofsFailFast(document, proofSeq, f, done) ==
    IF Len(done) = Len(proofSeq)
    THEN [state |-> "done", results |-> done]
    ELSE LET r == VerifyProof(document, proofSeq[Len(done) + 1], f)
         IN  IF r = "panic"
             THEN [state |-> "panicked", results |-> done]
             ELSE IF r # "ok"
                  THEN [state |-> "done", results |-> Append(done, r)]
                  ELSE VerifyProofsFailFast(document, proofSeq, f, Append(done, r))

\* the check of the document's proofs in sequence: one result per proof; a panic of the
\* fetcher ends the check where it happens
RECURSIVE VerifyProofs(_, _, _, _)
VerifyProofs(document, proofSeq, f, done) ==
    IF Len(done) = Len(proofSeq)
    THEN [state |-> "done", results |-> done]
    ELSE LET r == VerifyProof(document, proofSeq[Len(done) + 1], f)
         IN  IF r = "panic"
             THEN [state |-> "panicked", results |-> done]
             ELSE VerifyProofs(document, proofSeq, f, Append(done, r))

ProofContexts ==
    [SignatureType : {"Ed25519Signature2018"},
     Signer : SignerIds,
     Created : {"t0"},
     VerificationMethod : {<<Issuer, frag>> : frag \in Fragments}]

\* what identifies an attached proof apart from its signature value
Attachment(proof) ==
    [type |-> proof.type, created |-> proof.created,
     verificationMethod |-> proof.verificationMethod, proofPurpose |-> proof.proofPurpose]

CallAddLinkedDataProof ==
    /\ Len(proofs) < MaxProofs
    /\ \E ctx \in ProofContexts :
         /\ proofs' = AddLinkedDataProof(Document, proofs, ctx)
         /\ attached' = Append(attached,
                               [type |-> ctx.SignatureType, created |-> ctx.Created,
                                verificationMethod |-> ctx.VerificationMethod,
                                proofPurpose |-> "assertionMethod"])
    /\ vstate' = "idle"
    /\ results' = <<>>
    /\ before' = <<>>
    /\ tampered' = 0
    /\ UNCHANGED <<fetcher, signerVars, adapterVars>>

\* the document's proofs are checked with a fetcher; after a tampering, with the same one
CallVerifyProofs ==
    /\ vstate \in {"idle", "tampered"}
    /\ Len(proofs) > 0
    /\ \E f \in Fetchers :
         /\ vstate = "tampered" => f = fetcher
         /\ LET res == VerifyProofs(Document, proofs, f, <<>>)
            IN  /\ results' = res.results
                /\ vstate' = IF res.state = "panicked" THEN "panicked"
                             ELSE IF vstate = "tampered" THEN "rechecked" ELSE "done"
         /\ fetcher' = f
    /\ UNCHANGED <<proofs, attached, before, tampered, signerVars, adapterVars>>

\* a holder damages or removes the signature value of one proof of a checked document
TamperProof ==
    /\ vstate = "done"
    /\ \E i \in 1..Len(proofs), how \in {"damaged", "absent"} :
         /\ proofs' = [proofs EXCEPT ![i].signatureValue.state = how]
         /\ tampered' = i
    /\ before' = results
    /\ vstate' = "tampered"
    /\ UNCHANGED <<attached, fetcher, results, signerVars, adapterVars>>

----------------------------------------------------------------------------

Init ==
    /\ es = NilSigner
    /\ esErr = NoErr
    /\ esCall = NoCall
    /\ sigOut = NoSig
    /\ rsOut = NoRS
    /\ backend = MockCrypto(<<>>, NoErr, NoErr)
    /\ adOut = NoAdapterCall
    /\ proofs = <<>>
    /\ attached = <<>>
    /\ fetcher = [kind |-> "twoProofs"]
    /\ results = <<>>
    /\ vstate = "idle"
    /\ before = <<>>
    /\ tampered = 0

NextSigner ==
    \/ CallNewECDSASigner
    \/ CallGetECDSASigner
    \/ CallNewECDSAP256Signer
    \/ CallNewECDSAP384Signer
    \/ CallNewECDSAP521Signer
    \/ CallNewECDSASecp256k1Signer
    \/ CallGetECDSAP256Signer
    \/ CallGetECDSAP384Signer
    \/ CallGetECDSAP521Signer
    \/ CallGetECDSASecp256k1Signer
    \/ CallSign
    \/ Release

NextAdapter ==
    \/ NewMockCrypto
    \/ CallAdapterSign
    \/ CallAdapterVerify

NextProofs ==
    \/ CallAddLinkedDataProof
    \/ CallVerifyProofs
    \/ TamperProof

SpecSigner == Init /\ [][NextSigner]_vars
SpecAdapter == Init /\ [][NextAdapter]_vars
SpecProofs == Init /\ [][NextProofs]_vars

Next == NextSigner \/ NextAdapter \/ NextProofs
Spec == Init /\ [][Next]_vars

----------------------------------------------------------------------------
(* Properties *)

\* ceil(bits / 8), computed apart from keyBytes
CeilBytes(bits) == (bits + 7) \div 8

\* the integer a big-endian byte string denotes, in big.Int's form: leading zeros dropped
RECURSIVE BigEndianValue(_)
BigEndianValue(bytes) ==
    IF bytes = <<>> THEN <<>>
    ELSE IF Head(bytes) = 0 THEN BigEndianValue(Tail(bytes))
    ELSE bytes

SignedCurve == es.privateKey.curve

\* C1: a successful Sign with a key on a supported curve returns exactly
\* 2 * ceil(curve_bit_size/8) bytes - 64, 96, 132, 64 for P-256, P-384, P-521,
\* secp256k1 - whatever the byte lengths of r and s are.
C1_SignatureLength ==
    (sigOut.called /\ sigOut.err = NoErr /\ SignedCurve \in SupportedCurves)
        => /\ ~sigOut.panic
           /\ Len(sigOut.sig) = 2 * CeilBytes(BitSize(SignedCurve))
           /\ Len(sigOut.sig) = TableSigLen(SignedCurve)

C1_Witness ==
    /\ sigOut.called /\ sigOut.err = NoErr
    /\ SignedCurve = "P521"
    /\ Len(rsOut.r) = 1 /\ Len(rsOut.s) = 66
    /\ Len(sigOut.sig) = 132

\* C2: NewECDSASigner and GetECDSASigner return the "unsupported curve" error and a
\* nil signer for every curve other than P-256, P-384, P-521 and secp256k1, return a
\* non-nil signer for those four only, and never a signer next to an error.
C2_UnsupportedCurve ==
    esCall.op \in {"NewECDSASigner", "GetECDSASigner"}
        => /\ esCall.curve \notin SupportedCurves
                => (es = NilSigner /\ esErr = ErrUnsupportedCurve)
           /\ ~es.nil => (esCall.curve \in SupportedCurves /\ esErr = NoErr)
           /\ esErr # NoErr => es = NilSigner
           /\ esErr = ErrUnsupportedCurve => esCall.curve \notin SupportedCurves

C2_Witness ==
    /\ esCall = [op |-> "GetECDSASigner", curve |-> "P224"]
    /\ es = NilSigner
    /\ esErr = ErrUnsupportedCurve

\* C3: every signer a constructor returns carries the algorithm id and the hash the
\* table binds to the curve of its own key.
C3_TableBinding ==
    ~es.nil
        => /\ SignedCurve \in SupportedCurves
           /\ es.alg = TableAlg(SignedCurve)
           /\ es.hash = TableHash(SignedCurve)

\* C9: the signature is r||s at fixed width: with n = ceil(curve_bit_size/8), the
\* first n bytes are zero bytes followed by the bytes of r, the last n bytes zero
\* bytes followed by the bytes of s, and each half read as a big-endian integer is
\* the r, the s, that ecdsa.Sign produced.
C9_FixedWidthRoundTrip ==
    (sigOut.called /\ sigOut.err = NoErr)
        => LET n == CeilBytes(BitSize(SignedCurve))
               rHalf == SubSeq(sigOut.sig, 1, n)
               sHalf == SubSeq(sigOut.sig, n + 1, 2 * n)
           IN  /\ Len(sigOut.sig) = 2 * n
               /\ \A i \in 1..n :
                    /\ rHalf[i] = IF i <= n - Len(rsOut.r) THEN 0
                                  ELSE rsOut.r[i - (n - Len(rsOut.r))]
                    /\ sHalf[i] = IF i <= n - Len(rsOut.s) THEN 0
                                  ELSE rsOut.s[i - (n - Len(rsOut.s))]
               /\ BigEndianValue(rHalf) = rsOut.r
               /\ BigEndianValue(sHalf) = rsOut.s

C9_Witness ==
    /\ sigOut.called /\ sigOut.err = NoErr
    /\ SignedCurve = "P256"
    /\ Len(rsOut.r) = 31 /\ Len(rsOut.s) = 1
    /\ sigOut.sig[1] = 0 /\ sigOut.sig[2] = 254
    /\ sigOut.sig[63] = 0 /\ sigOut.sig[64] = 1

\* C10: when ecdsa.Sign fails, Sign returns that error and no signature bytes; an
\* error never comes with bytes, and a nil error always with the full-length signature.
C10_ErrorMeansNoSignature ==
    sigOut.called
        => /\ ~rsOut.ok => (sigOut.err = ErrSignRand /\ sigOut.sig = <<>>)
           /\ sigOut.err # NoErr => sigOut.sig = <<>>
           /\ sigOut.err = NoErr
                => /\ rsOut.ok
                   /\ Len(sigOut.sig) = 2 * CeilBytes(BitSize(SignedCurve))

C10_Witness ==
    /\ sigOut.called /\ ~rsOut.ok
    /\ sigOut.err = ErrSignRand
    /\ sigOut.sig = <<>>

\* C4: the adapter hands back what the backend returned: the backend's bytes and no
\* error when the backend signs, the backend's error as it is when the backend fails
\* to sign or to verify, success of Verify only when the backend reports success, and
\* one backend call for each adapter call.
C4_AdapterTransparent ==
    /\ adOut.op = "Sign"
         => /\ adOut.val = backend.ret.val /\ adOut.err = backend.ret.err
            /\ backend.SignErr = NoErr
                 => (adOut.err = NoErr /\ adOut.val = backend.SignVal)
            /\ backend.SignErr # NoErr => adOut.err = backend.SignErr
    /\ adOut.op = "Verify"
         => /\ adOut.err = backend.ret.err
            /\ adOut.err = backend.VerifyErr
    /\ backend.signCalls + backend.verifyCalls = adOut.n

C4_Witness ==
    /\ adOut.op = "Sign"
    /\ backend.SignErr = "sign error"
    /\ adOut.err = "sign error"
    /\ backend.signCalls = 1

AttachmentSeq(proofSeq) == [i \in 1..Len(proofSeq) |-> Attachment(proofSeq[i])]

\* C5: each AddLinkedDataProof lengthens the proof sequence by one, leaves every proof
\* that was there as it was, and the sequence lists the proofs in attachment order.
C5_AppendOnly ==
    [][attached' # attached
         => /\ Len(proofs') = Len(proofs) + 1
            /\ \A i \in 1..Len(proofs) : proofs'[i] = proofs[i]
            /\ AttachmentSeq(proofs') = attached']_vars

C5_Witness ==
    /\ Len(proofs) = 2
    /\ proofs[1].verificationMethod = <<Issuer, "key1">>
    /\ proofs[2].verificationMethod = <<Issuer, "key2">>
    /\ proofs[1].signatureValue.by = 1
    /\ proofs[2].signatureValue.by = 2
    /\ attached = AttachmentSeq(proofs)

C7_ResolutionFailureRecoverable ==
    /\ vstate # "panicked"
    /\ vstate \in {"done", "rechecked"} => Len(results) = Len(proofs)

====
